---- MODULE Spec2Model ----
(***************************************************************************)
(* Model of src/main.go: the mutex-guarded TodoList, its JSON persistence  *)
(* (SaveToFile / LoadFromFile), the AutoSave goroutine and the part of     *)
(* main() that drives them (startup load, menu dispatch, shutdown).        *)
(*                                                                         *)
(* Two threads of control: "main" (the foreground menu loop) and "auto"    *)
(* (the AutoSave goroutine).  Every sync.Mutex Lock is a step of its own,  *)
(* so a thread can be seen waiting for the lock and inside its critical    *)
(* section; the body of a method up to its deferred Unlock is one step.    *)
(***************************************************************************)
EXTENDS Integers, Sequences, FiniteSets

\* Bound: CreateTodo is called at most this many times in one run.
MaxCreates == 2

\* A title holding a byte that is not valid UTF-8 (the single byte 0xFF, which
\* ReadString and TrimSpace pass on as typed), and what encoding/json writes
\* in its place: the replacement character U+FFFD.
InvalidTitle == "<FF>"
ReplacementChar == "<U+FFFD>"

\* Titles the user can type (after TrimSpace); "" is the empty line.
Titles == {"a", InvalidTitle}

\* Wall-clock readings time.Now() can return.  No operation compares or
\* computes with a timestamp; what tells two timestamps apart in the model is
\* the monotonic reading (see Now and DecodeTodo).
Times == {1}

\* Ids the user can type at the update/delete prompts.
Ids == 1..MaxCreates

VARIABLES
    todos,      \* TodoList.todos: sequence of Todo records
    idCounter,  \* TodoList.idCounter
    changed,    \* TodoList.changed (the dirty flag)
    mu,         \* TodoList.mu: "free", or the thread holding it
    file,       \* content of todos.json: Absent, Corrupt or Json(array)
    pcMain,     \* where main() is
    pcAuto,     \* where the AutoSave goroutine is
    shouldSave, \* AutoSave's local shouldSave (FALSE outside its scope)
    wg,         \* the WaitGroup counter
    out,        \* the line the step just taken printed, "" when it printed none
    call,       \* the store method that returned in the step just taken
    assigned,   \* history: the ids CreateTodo has assigned, in order
    deleted,    \* history: ids passed to DeleteTodo since the last Create/Load
    synced      \* history: a LoadFromFile or SaveToFile call has succeeded

vars == <<todos, idCounter, changed, mu, file, pcMain, pcAuto, shouldSave,
          wg, out, call, assigned, deleted, synced>>

store == <<todos, idCounter, changed>>
hist == <<assigned, deleted, synced>>

----------------------------------------------------------------------------
\* Values

\* time.Now() carries a monotonic clock reading next to the wall clock.
Now(w) == [wall |-> w, mono |-> TRUE]

\* Todo{ID, Title, Completed, CreatedAt}
Todo(id, title, completed, createdAt) ==
    [ID |-> id, Title |-> title, Completed |-> completed, CreatedAt |-> createdAt]

\* todos.json: missing, unreadable as JSON (truncated by a failed write), or
\* holding a JSON array of objects.  An object's "completed" is kept as the
\* JSON text of its value: "true", "false", "null", or some value of another
\* type.
Absent == [kind |-> "absent", data |-> <<>>]
Corrupt == [kind |-> "corrupt", data |-> <<>>]
Json(objs) == [kind |-> "json", data |-> objs]

\* How encoding/json writes a Go string: bytes that are not valid UTF-8 are
\* replaced by U+FFFD.
ToValidUTF8(s) == IF s = InvalidTitle THEN ReplacementChar ELSE s

\* How encoding/json writes a Go bool.
JsonBool(b) == IF b THEN "true" ELSE "false"

\* json.Encoder.Encode of one Todo: time.Time marshals as RFC 3339 text,
\* which holds the wall clock only.
EncodeTodo(t) ==
    [id |-> t.ID, title |-> ToValidUTF8(t.Title),
     completed |-> JsonBool(t.Completed), created_at |-> t.CreatedAt.wall]

Encode(ts) == [i \in 1..Len(ts) |-> EncodeTodo(ts[i])]

\* json.Decoder.Decode of one object into a zero Todo: the parsed time has no
\* monotonic reading; a "completed" that is null has no effect and one of
\* another type is skipped, and both leave the field false.
DecodeTodo(o) ==
    Todo(o.id, o.title, o.completed = "true",
         [wall |-> o.created_at, mono |-> FALSE])

Decode(objs) == [i \in 1..Len(objs) |-> DecodeTodo(objs[i])]

\* Decode returns an *json.UnmarshalTypeError, after storing what it could
\* decode, when some field has a value of the wrong type.  A JSON null is of
\* no wrong type: it is accepted without an error.
DecodeTypeError(objs) ==
    \E i \in 1..Len(objs) : objs[i].completed \notin {"true", "false", "null"}

\* Index of the first todo with the given ID, 0 when there is none
\* (the range loops of UpdateTodo and DeleteTodo).
FindFirst(ts, id) ==
    IF \E i \in 1..Len(ts) : ts[i].ID = id
    THEN CHOOSE i \in 1..Len(ts) :
            /\ ts[i].ID = id
            /\ \A j \in 1..(i-1) : ts[j].ID # id
    ELSE 0

\* todos.json as the program can find it at startup: never written, truncated
\* by a failed write, saved with one todo by an earlier run, or edited by
\* hand so that the todo's "completed" holds a JSON string or null.
InitFiles ==
    { Absent, Corrupt, Json(Encode(<<Todo(1, "a", FALSE, Now(1))>>)),
      Json(<<[id |-> 1, title |-> "a", completed |-> "\"no\"",
              created_at |-> 1]>>),
      Json(<<[id |-> 1, title |-> "a", completed |-> "null",
              created_at |-> 1]>>) }

\* A store method with the arguments it was called with.
Call(op, id, title, completed) ==
    [op |-> op, id |-> id, title |-> title, completed |-> completed]

NoCall == Call("none", 0, "", FALSE)

\* A step that prints nothing and returns from no store method.
Quiet == out' = "" /\ call' = NoCall

----------------------------------------------------------------------------
Init ==
    /\ todos = <<>>
    /\ idCounter = 0
    /\ changed = FALSE
    /\ mu = "free"
    /\ file \in InitFiles
    /\ pcMain = "load"
    /\ pcAuto = "unstarted"
    /\ shouldSave = FALSE
    /\ wg = 0
    /\ out = ""
    /\ call = NoCall
    /\ assigned = <<>>
    /\ deleted = {}
    /\ synced = FALSE

----------------------------------------------------------------------------
\* TodoList methods called by main

\* t.mu.Lock() by main, at the head of the method it called.
MainLock ==
    /\ pcMain \in {"load", "create", "list", "update", "delete"}
    /\ mu = "free"
    /\ mu' = "main"
    /\ Quiet
    /\ UNCHANGED <<store, file, pcMain, pcAuto, shouldSave, wg, hist>>

\* Variant of NewID: the id is taken from the length of the list.
NewIDFromLen == Len(todos) + 1

\* The id CreateTodo gives the new todo: t.idCounter after t.idCounter++.
NewID == idCounter + 1

\* CreateTodo(title), from after the Lock to the deferred Unlock.
CreateTodo(title) ==
    /\ pcMain = "create" /\ mu = "main"
    /\ \E w \in Times :
          todos' = Append(todos, Todo(NewID, title, FALSE, Now(w)))
    /\ idCounter' = NewID
    /\ changed' = TRUE
    /\ out' = "To-Do added successfully."
    /\ call' = Call("create", 0, title, FALSE)
    /\ assigned' = Append(assigned, NewID)
    /\ deleted' = {}
    /\ mu' = "free"
    /\ pcMain' = "menu"
    /\ UNCHANGED <<file, pcAuto, shouldSave, wg, synced>>

\* ListTodos(), from after the Lock to the deferred Unlock: it prints
\* "No To-Dos found." or the header and one row per todo.
ListTodos ==
    /\ pcMain = "list" /\ mu = "main"
    /\ out' = IF Len(todos) = 0 THEN "No To-Dos found." ELSE "To-Do List:"
    /\ call' = Call("list", 0, "", FALSE)
    /\ mu' = "free"
    /\ pcMain' = "menu"
    /\ UNCHANGED <<store, file, pcAuto, shouldSave, wg, hist>>

\* Variant of UpdatedTodo: the title is overwritten also by an empty newTitle.
UpdatedTodoAlwaysTitle(todo, newTitle, completed) ==
    [todo EXCEPT !.Title = newTitle, !.Completed = completed]

\* The body of UpdateTodo's loop for the matching todo.
UpdatedTodo(todo, newTitle, completed) ==
    [todo EXCEPT !.Title = IF newTitle # "" THEN newTitle ELSE @,
                 !.Completed = completed]

\* Variant of UpdateTodo: t.changed is set only when the todo's values change.
UpdateTodoDirtyOnDiff(id, newTitle, completed) ==
    /\ pcMain = "update" /\ mu = "main"
    /\ LET i == FindFirst(todos, id) IN
         IF i # 0
         THEN /\ todos' = [todos EXCEPT ![i] = UpdatedTodo(todos[i], newTitle, completed)]
              /\ changed' = (changed \/ todos'[i] # todos[i])
              /\ out' = "To-Do updated successfully."
         ELSE /\ UNCHANGED <<todos, changed>>
              /\ out' = "To-Do not found."
    /\ call' = Call("update", id, newTitle, completed)
    /\ mu' = "free"
    /\ pcMain' = "menu"
    /\ UNCHANGED <<idCounter, file, pcAuto, shouldSave, wg, hist>>

\* UpdateTodo(id, newTitle, completed), from after the Lock to the deferred
\* Unlock.
UpdateTodo(id, newTitle, completed) ==
    /\ pcMain = "update" /\ mu = "main"
    /\ LET i == FindFirst(todos, id) IN
         IF i # 0
         THEN /\ todos' = [todos EXCEPT ![i] = UpdatedTodo(todos[i], newTitle, completed)]
              /\ changed' = TRUE
              /\ out' = "To-Do updated successfully."
         ELSE /\ UNCHANGED <<todos, changed>>
              /\ out' = "To-Do not found."
    /\ call' = Call("update", id, newTitle, completed)
    /\ mu' = "free"
    /\ pcMain' = "menu"
    /\ UNCHANGED <<idCounter, file, pcAuto, shouldSave, wg, hist>>

\* Variant of RemoveAt: the list is cut at the match (t.todos[:i] alone).
RemoveAtCutsTail(ts, i) == SubSeq(ts, 1, i - 1)

\* append(t.todos[:i], t.todos[i+1:]...), with i counted from 1.
RemoveAt(ts, i) ==
    [j \in 1..(Len(ts) - 1) |-> IF j < i THEN ts[j] ELSE ts[j + 1]]

\* Variant of DeleteTodo: removing a todo gives its id back to the counter.
DeleteTodoFreesId(id) ==
    /\ pcMain = "delete" /\ mu = "main"
    /\ LET i == FindFirst(todos, id) IN
         IF i # 0
         THEN /\ todos' = RemoveAt(todos, i)
              /\ idCounter' = idCounter - 1
              /\ changed' = TRUE
              /\ out' = "To-Do deleted successfully."
         ELSE /\ UNCHANGED <<todos, idCounter, changed>>
              /\ out' = "To-Do not found."
    /\ call' = Call("delete", id, "", FALSE)
    /\ deleted' = deleted \cup {id}
    /\ mu' = "free"
    /\ pcMain' = "menu"
    /\ UNCHANGED <<file, pcAuto, shouldSave, wg, assigned, synced>>

\* Variant of DeleteTodo: the removal does not set t.changed.
DeleteTodoForgetsChanged(id) ==
    /\ pcMain = "delete" /\ mu = "main"
    /\ LET i == FindFirst(todos, id) IN
         IF i # 0
         THEN /\ todos' = RemoveAt(todos, i)
              /\ UNCHANGED changed
              /\ out' = "To-Do deleted successfully."
         ELSE /\ UNCHANGED <<todos, changed>>
              /\ out' = "To-Do not found."
    /\ call' = Call("delete", id, "", FALSE)
    /\ deleted' = deleted \cup {id}
    /\ mu' = "free"
    /\ pcMain' = "menu"
    /\ UNCHANGED <<idCounter, file, pcAuto, shouldSave, wg, assigned, synced>>

\* Variant of DeleteTodo: t.changed is set whether or not the ID is found.
DeleteTodoAlwaysDirty(id) ==
    /\ pcMain = "delete" /\ mu = "main"
    /\ LET i == FindFirst(todos, id) IN
         IF i # 0
         THEN /\ todos' = RemoveAt(todos, i)
              /\ out' = "To-Do deleted successfully."
         ELSE /\ UNCHANGED todos
              /\ out' = "To-Do not found."
    /\ changed' = TRUE
    /\ call' = Call("delete", id, "", FALSE)
    /\ deleted' = deleted \cup {id}
    /\ mu' = "free"
    /\ pcMain' = "menu"
    /\ UNCHANGED <<idCounter, file, pcAuto, shouldSave, wg, assigned, synced>>

\* DeleteTodo(id), from after the Lock to the deferred Unlock.
DeleteTodo(id) ==
    /\ pcMain = "delete" /\ mu = "main"
    /\ LET i == FindFirst(todos, id) IN
         IF i # 0
         THEN /\ todos' = RemoveAt(todos, i)
              /\ changed' = TRUE
              /\ out' = "To-Do deleted successfully."
         ELSE /\ UNCHANGED <<todos, changed>>
              /\ out' = "To-Do not found."
    /\ call' = Call("delete", id, "", FALSE)
    /\ deleted' = deleted \cup {id}
    /\ mu' = "free"
    /\ pcMain' = "menu"
    /\ UNCHANGED <<idCounter, file, pcAuto, shouldSave, wg, assigned, synced>>

----------------------------------------------------------------------------
\* Persistence

\* What LoadFromFile can meet when the file exists: "ok", or os.Open failing.
LoadResults == {"ok", "openErr"}

\* Variant of LoadFromFile: a successful load sets t.idCounter to the largest
\* loaded ID.
LoadFromFileRestoresCounter(result) ==
    /\ pcMain = "load" /\ mu = "main"
    /\ CASE file.kind = "absent" ->
              /\ UNCHANGED <<todos, idCounter, synced>>
              /\ out' = ""
         [] file.kind = "corrupt" \/ result = "openErr" ->
              /\ UNCHANGED <<todos, idCounter, synced>>
              /\ out' = "Error loading file:"
         [] OTHER ->
              /\ todos' = Decode(file.data)
              /\ synced' = (synced \/ ~DecodeTypeError(file.data))
              /\ out' = IF DecodeTypeError(file.data)
                        THEN "Error loading file:"
                        ELSE "To-Do list loaded from file."
              /\ idCounter' =
                    LET ids == {todos'[i].ID : i \in 1..Len(todos')} IN
                      IF ids = {} THEN idCounter
                      ELSE CHOOSE m \in ids : \A n \in ids : n <= m
    /\ call' = Call("load", 0, "", FALSE)
    /\ deleted' = {}
    /\ mu' = "free"
    /\ pcMain' = "go"
    /\ UNCHANGED <<changed, file, pcAuto, shouldSave, wg, assigned>>

\* LoadFromFile(filename) as main calls it at startup, from after the Lock to
\* the deferred Unlock, with main's handling of the returned error: a missing
\* file is silent, any other error is printed.  A truncated file is refused
\* by the decoder before anything is stored; a file with a wrongly typed
\* field is decoded into t.todos as far as it goes and then reported as an
\* error.
LoadFromFile(result) ==
    /\ pcMain = "load" /\ mu = "main"
    /\ CASE file.kind = "absent" ->
              /\ UNCHANGED <<todos, synced>>
              /\ out' = ""
         [] file.kind = "corrupt" \/ result = "openErr" ->
              /\ UNCHANGED <<todos, synced>>
              /\ out' = "Error loading file:"
         [] OTHER ->
              /\ todos' = Decode(file.data)
              /\ synced' = (synced \/ ~DecodeTypeError(file.data))
              /\ out' = IF DecodeTypeError(file.data)
                        THEN "Error loading file:"
                        ELSE "To-Do list loaded from file."
    /\ call' = Call("load", 0, "", FALSE)
    /\ deleted' = {}
    /\ mu' = "free"
    /\ pcMain' = "go"
    /\ UNCHANGED <<idCounter, changed, file, pcAuto, shouldSave, wg, assigned>>

\* What SaveToFile can meet: "ok", os.Create failing, or the write failing
\* after os.Create has truncated the file.
SaveResults == {"ok", "createErr", "writeErr"}

\* Variant of SaveToFile: t.changed is reset before the file is written.
SaveToFileClearsFirst(result) ==
    /\ pcAuto = "saveIn" /\ mu = "auto"
    /\ changed' = FALSE
    /\ CASE result = "ok" ->
              /\ file' = Json(Encode(todos))
              /\ out' = "To-Do list saved to file."
              /\ synced' = TRUE
              /\ pcAuto' = "select"
         [] result = "createErr" ->
              /\ UNCHANGED <<file, synced>>
              /\ out' = ""
              /\ pcAuto' = "saveErr"
         [] OTHER ->
              /\ file' = Corrupt
              /\ UNCHANGED synced
              /\ out' = ""
              /\ pcAuto' = "saveErr"
    /\ call' = Call("save", 0, "", FALSE)
    /\ mu' = "free"
    /\ shouldSave' = FALSE
    /\ UNCHANGED <<todos, idCounter, pcMain, wg, assigned, deleted>>

\* SaveToFile(filename) as AutoSave calls it, from after the Lock to the
\* deferred Unlock.  On success it prints and AutoSave is back at its select;
\* on an error it prints nothing and AutoSave is left with the error to
\* print.  shouldSave is not read after the call.
SaveToFile(result) ==
    /\ pcAuto = "saveIn" /\ mu = "auto"
    /\ CASE result = "ok" ->
              /\ file' = Json(Encode(todos))
              /\ changed' = FALSE
              /\ out' = "To-Do list saved to file."
              /\ synced' = TRUE
              /\ pcAuto' = "select"
         [] result = "createErr" ->
              /\ UNCHANGED <<file, changed, synced>>
              /\ out' = ""
              /\ pcAuto' = "saveErr"
         [] OTHER ->
              /\ file' = Corrupt
              /\ UNCHANGED <<changed, synced>>
              /\ out' = ""
              /\ pcAuto' = "saveErr"
    /\ call' = Call("save", 0, "", FALSE)
    /\ mu' = "free"
    /\ shouldSave' = FALSE
    /\ UNCHANGED <<todos, idCounter, pcMain, wg, assigned, deleted>>

----------------------------------------------------------------------------
\* AutoSave goroutine

\* case <-ticker.C: the ticker fires while AutoSave waits in the select.
AutoTick ==
    /\ pcAuto = "select"
    /\ pcAuto' = "tickLock"
    /\ Quiet
    /\ UNCHANGED <<store, mu, file, pcMain, shouldSave, wg, hist>>

\* Variant of AutoLock: AutoSave goes on without taking the lock.
AutoLockSkipped ==
    /\ pcAuto \in {"tickLock", "saveLock"}
    /\ pcAuto' = IF pcAuto = "tickLock" THEN "tickIn" ELSE "saveIn"
    /\ Quiet
    /\ UNCHANGED <<store, mu, file, pcMain, shouldSave, wg, hist>>

\* t.mu.Lock() by AutoSave: before reading t.changed, and at the head of
\* SaveToFile.
AutoLock ==
    /\ pcAuto \in {"tickLock", "saveLock"}
    /\ mu = "free"
    /\ mu' = "auto"
    /\ pcAuto' = IF pcAuto = "tickLock" THEN "tickIn" ELSE "saveIn"
    /\ Quiet
    /\ UNCHANGED <<store, file, pcMain, shouldSave, wg, hist>>

\* Variant of CallsSave: every tick saves.
CallsSaveAlways(flag) == TRUE

\* if shouldSave { ... }: whether the tick goes on to call SaveToFile.
CallsSave(flag) == flag

\* Variant of AutoCheck: SaveToFile is called before the lock is released.
AutoCheckKeepsLock ==
    /\ pcAuto = "tickIn" /\ mu = "auto"
    /\ IF CallsSave(changed)
       THEN /\ shouldSave' = changed
            /\ pcAuto' = "saveLock"
            /\ UNCHANGED mu
       ELSE /\ shouldSave' = FALSE
            /\ pcAuto' = "select"
            /\ mu' = "free"
    /\ Quiet
    /\ UNCHANGED <<store, file, pcMain, wg, hist>>

\* shouldSave := t.changed; t.mu.Unlock(); then the if on shouldSave, which
\* either calls SaveToFile or ends the tick's case.
AutoCheck ==
    /\ pcAuto = "tickIn" /\ mu = "auto"
    /\ mu' = "free"
    /\ IF CallsSave(changed)
       THEN /\ shouldSave' = changed
            /\ pcAuto' = "saveLock"
       ELSE /\ shouldSave' = FALSE
            /\ pcAuto' = "select"
    /\ Quiet
    /\ UNCHANGED <<store, file, pcMain, wg, hist>>

\* Variant of AutoPrintError: AutoSave returns after printing the error.
AutoPrintErrorStops ==
    /\ pcAuto = "saveErr"
    /\ out' = "Error saving file:"
    /\ call' = NoCall
    /\ wg' = wg - 1
    /\ pcAuto' = "stopped"
    /\ UNCHANGED <<store, mu, file, pcMain, shouldSave, hist>>

\* if err != nil { fmt.Println("Error saving file:", err) }, after SaveToFile
\* has returned the error and released the lock; the tick's case ends.
AutoPrintError ==
    /\ pcAuto = "saveErr"
    /\ out' = "Error saving file:"
    /\ call' = NoCall
    /\ pcAuto' = "select"
    /\ UNCHANGED <<store, mu, file, pcMain, shouldSave, wg, hist>>

\* Variant of AutoRecvDone: the done case leaves the select, not the loop.
AutoRecvDoneLoops ==
    /\ pcAuto = "select"
    /\ pcMain = "send"
    /\ pcAuto' = "select"
    /\ pcMain' = "close"
    /\ Quiet
    /\ UNCHANGED <<store, mu, file, shouldSave, wg, hist>>

\* case <-done: the receive that pairs with main's send on the unbuffered
\* channel; both threads move on together.
AutoRecvDone ==
    /\ pcAuto = "select"
    /\ pcMain = "send"
    /\ pcAuto' = "stopping"
    /\ pcMain' = "close"
    /\ Quiet
    /\ UNCHANGED <<store, mu, file, shouldSave, wg, hist>>

\* Variant of AutoReturn: AutoSave returns without wg.Done().
AutoReturnNoDone ==
    /\ pcAuto = "stopping"
    /\ out' = "Auto-save stopped."
    /\ call' = NoCall
    /\ pcAuto' = "stopped"
    /\ UNCHANGED <<store, mu, file, pcMain, shouldSave, wg, hist>>

\* fmt.Println("Auto-save stopped."); return, which runs the deferred
\* wg.Done().
AutoReturn ==
    /\ pcAuto = "stopping"
    /\ out' = "Auto-save stopped."
    /\ call' = NoCall
    /\ wg' = wg - 1
    /\ pcAuto' = "stopped"
    /\ UNCHANGED <<store, mu, file, pcMain, shouldSave, hist>>

----------------------------------------------------------------------------
\* main

\* wg.Add(1); go todoList.AutoSave(...)
MainGo ==
    /\ pcMain = "go"
    /\ wg' = wg + 1
    /\ pcAuto' = "select"
    /\ pcMain' = "menu"
    /\ Quiet
    /\ UNCHANGED <<store, mu, file, shouldSave, hist>>

\* Menu choices 1 to 4 with well-formed input (a non-empty title, a numeric
\* id): main calls the store method and reaches its t.mu.Lock().
ChooseCreate ==
    /\ pcMain = "menu"
    /\ idCounter < MaxCreates
    /\ pcMain' = "create"
    /\ Quiet
    /\ UNCHANGED <<store, mu, file, pcAuto, shouldSave, wg, hist>>

ChooseList ==
    /\ pcMain = "menu"
    /\ pcMain' = "list"
    /\ Quiet
    /\ UNCHANGED <<store, mu, file, pcAuto, shouldSave, wg, hist>>

ChooseUpdate ==
    /\ pcMain = "menu"
    /\ pcMain' = "update"
    /\ Quiet
    /\ UNCHANGED <<store, mu, file, pcAuto, shouldSave, wg, hist>>

ChooseDelete ==
    /\ pcMain = "menu"
    /\ pcMain' = "delete"
    /\ Quiet
    /\ UNCHANGED <<store, mu, file, pcAuto, shouldSave, wg, hist>>

\* Menu choice 5, up to the send done <- true, which blocks until received.
ChooseExit ==
    /\ pcMain = "menu"
    /\ pcMain' = "send"
    /\ Quiet
    /\ UNCHANGED <<store, mu, file, pcAuto, shouldSave, wg, hist>>

\* close(done)
MainClose ==
    /\ pcMain = "close"
    /\ pcMain' = "wait"
    /\ Quiet
    /\ UNCHANGED <<store, mu, file, pcAuto, shouldSave, wg, hist>>

\* Variant of WaitReturns: main does not wait for the counter.
WaitReturnsAtOnce(n) == TRUE

\* wg.Wait() returns when the counter is zero.
WaitReturns(n) == n = 0

\* wg.Wait(); return: main returns and the process ends.
MainWait ==
    /\ pcMain = "wait"
    /\ WaitReturns(wg)
    /\ pcMain' = "terminated"
    /\ Quiet
    /\ UNCHANGED <<store, mu, file, pcAuto, shouldSave, wg, hist>>

----------------------------------------------------------------------------
Next ==
    \/ MainLock
    \/ \E result \in LoadResults : LoadFromFile(result)
    \/ MainGo
    \/ ChooseCreate
    \/ ChooseList
    \/ ChooseUpdate
    \/ ChooseDelete
    \/ ChooseExit
    \/ \E title \in Titles : CreateTodo(title)
    \/ ListTodos
    \/ \E id \in Ids, newTitle \in Titles \cup {""}, completed \in BOOLEAN :
          UpdateTodo(id, newTitle, completed)
    \/ \E id \in Ids : DeleteTodo(id)
    \/ MainClose
    \/ MainWait
    \/ AutoTick
    \/ AutoLock
    \/ AutoCheck
    \/ \E result \in SaveResults : SaveToFile(result)
    \/ AutoPrintError
    \/ AutoRecvDone
    \/ AutoReturn

Spec == Init /\ [][Next]_vars

\* Scheduling of the two threads.  A thread that can run does run (WF on the
\* steps of main and AutoSave that wait for nothing); sync.Mutex hands the
\* lock to a waiter that keeps waiting (SF on the Lock steps); the ticker
\* keeps firing (WF on AutoTick); the select takes the done case when main
\* keeps offering it (SF on AutoRecvDone).  A SaveToFile call returns, with
\* any of its results: saves may fail at every tick.  main is never forced
\* to make a menu choice: the user may stay at the prompt.
MainBody ==
    \/ \E result \in LoadResults : LoadFromFile(result)
    \/ \E title \in Titles : CreateTodo(title)
    \/ ListTodos
    \/ \E id \in Ids, newTitle \in Titles \cup {""}, completed \in BOOLEAN :
          UpdateTodo(id, newTitle, completed)
    \/ \E id \in Ids : DeleteTodo(id)

Fairness ==
    /\ SF_vars(MainLock)
    /\ WF_vars(MainBody)
    /\ WF_vars(MainGo)
    /\ WF_vars(MainClose)
    /\ WF_vars(MainWait)
    /\ WF_vars(AutoTick)
    /\ SF_vars(AutoLock)
    /\ WF_vars(AutoCheck)
    /\ WF_vars(\E result \in SaveResults : SaveToFile(result))
    /\ WF_vars(AutoPrintError)
    /\ SF_vars(AutoRecvDone)
    /\ WF_vars(AutoReturn)

FairSpec == Spec /\ Fairness

\* The runs in which no SaveToFile call returns an error.
SaveFails == \E result \in SaveResults \ {"ok"} : SaveToFile(result)

NextNoSaveFailure == Next /\ ~SaveFails

SpecNoSaveFailure == Init /\ [][NextNoSaveFailure]_vars

----------------------------------------------------------------------------
\* Properties

\* C1: the ids CreateTodo assigns go up by exactly 1 from one Create to the
\* next, and no id is assigned twice, whatever was deleted in between.
CreateIdsIncreaseByOne ==
    /\ \A k \in 1..(Len(assigned) - 1) : assigned[k + 1] = assigned[k] + 1
    /\ \A j, k \in 1..Len(assigned) : j # k => assigned[j] # assigned[k]

\* The second Create has just returned and the todo of the first Create is
\* gone: it was deleted between the two.
CreateAfterDeleteReached ==
    /\ call.op = "create"
    /\ assigned = <<1, 2>>
    /\ Len(todos) = 1 /\ todos[1].ID = 2

\* C2: in every reachable state every todo's id is unique in the sequence
\* and at most the id counter.
IdsUniqueAndBounded ==
    /\ \A i, j \in 1..Len(todos) : i # j => todos[i].ID # todos[j].ID
    /\ \A i \in 1..Len(todos) : todos[i].ID <= idCounter

\* C3: the dirty flag is false right after a successful SaveToFile, and true
\* right after a Create, an Update that found its todo and a Delete that
\* found its todo.
DirtyFlagAfterOperation ==
    /\ (call.op = "save" /\ out = "To-Do list saved to file.") => ~changed
    /\ call.op = "create" => changed
    /\ (call.op = "update" /\ out = "To-Do updated successfully.") => changed
    /\ (call.op = "delete" /\ out = "To-Do deleted successfully.") => changed

\* An Update has just returned that found the loaded todo and gave it the
\* values it already had; the store still equals the file it was loaded from.
UpdateSameValuesReached ==
    /\ call = Call("update", 1, "", FALSE)
    /\ out = "To-Do updated successfully."
    /\ file.kind = "json" /\ todos = Decode(file.data)
    /\ changed

\* C4 as stated: whenever the dirty flag is false, the file content equals
\* the in-memory task sequence.
CleanMeansSaved ==
    ~changed => file = Json(Encode(todos))

\* What LoadFromFile stores into a fresh store when it reads file f.
LoadedFrom(f) == Decode(f.data)

\* C4 as amended: once a load or a save has succeeded, whenever the dirty
\* flag is false the file content is what a save of the in-memory task
\* sequence writes, or the in-memory task sequence is what a load of the
\* file stores; until then a clean store is the empty store it was
\* constructed as, or holds what a failed startup load decoded from a file
\* with a wrongly typed field.
CleanMeansSavedOnceSynced ==
    ~changed =>
        IF synced
        THEN file = Json(Encode(todos)) \/ todos = LoadedFrom(file)
        ELSE todos = <<>> \/ (DecodeTypeError(file.data) /\ todos = LoadedFrom(file))

\* AutoSave has saved a todo and main has not touched the store since, while
\* AutoSave is in the middle of a later tick.
CleanAfterSaveReached ==
    /\ ~changed /\ synced
    /\ idCounter = 2 /\ Len(todos) = 1
    /\ file = Json(Encode(todos))
    /\ pcAuto = "tickIn"

\* SaveToFile has just returned an error: it returned without printing.
SaveFailed == call.op = "save" /\ out # "To-Do list saved to file."

\* C5: a SaveToFile call that fails hands the error to AutoSave and leaves
\* the dirty flag, the task sequence and the id counter as they were.
FailedSaveChangesNothing ==
    [][SaveFailed'
          => (UNCHANGED <<changed, todos, idCounter>> /\ pcAuto' = "saveErr")]_vars

\* A SaveToFile call has just failed in the write, with changes pending.
FailedSaveReached ==
    /\ SaveFailed
    /\ pcAuto = "saveErr"
    /\ file = Corrupt
    /\ changed /\ Len(todos) > 0

\* C6: AutoSave calls SaveToFile only in a tick whose read of the dirty flag
\* returned true: from the call of SaveToFile to its return, shouldSave (the
\* value read under the lock in this tick) is true.
AutoSaveOnlyWhenDirty ==
    pcAuto \in {"saveLock", "saveIn"} => shouldSave

\* AutoSave is inside SaveToFile after a tick that read the flag as true.
AutoSaveSavingReached ==
    /\ pcAuto = "saveIn" /\ mu = "auto"
    /\ shouldSave /\ changed

\* C7: main does not terminate before AutoSave has signalled completion, and
\* no SaveToFile call is in progress when the process has terminated.
NoExitDuringSave ==
    pcMain = "terminated" =>
        /\ pcAuto = "stopped" /\ wg = 0
        /\ pcAuto \notin {"saveLock", "saveIn"} /\ mu = "free"

\* The process has terminated after AutoSave saved a todo during the run.
ExitAfterSaveReached ==
    /\ pcMain = "terminated"
    /\ pcAuto = "stopped"
    /\ ~changed /\ Len(todos) > 0 /\ idCounter > 0
    /\ file = Json(Encode(todos))

\* C8: when the process terminates after a user-requested shutdown in a run
\* without save failures, no change is left unsaved: the dirty flag is false
\* and a non-empty task sequence equals the file content.
ExitLeavesNothingUnsaved ==
    pcMain = "terminated" =>
        /\ ~changed
        /\ Len(todos) > 0 => file = Json(Encode(todos))

\* C9: an Update of an id that was passed to Delete, with no Create or Load
\* since, reports not-found and leaves the store unchanged.
UpdateAfterDeleteNotFound ==
    [][(call'.op = "update" /\ call'.id \in deleted)
          => (out' = "To-Do not found." /\ UNCHANGED store)]_vars

\* C10: an Update that finds its todo sets the completion flag to the value
\* given, sets the title to newTitle when that is non-empty and keeps it
\* otherwise, and changes nothing else: not the todo's id, timestamp or
\* position, and no other todo.
UpdateChangesOnlyTitleAndFlag ==
    [][(call'.op = "update" /\ FindFirst(todos, call'.id) # 0) =>
          LET i == FindFirst(todos, call'.id) IN
            /\ Len(todos') = Len(todos)
            /\ todos'[i].Completed = call'.completed
            /\ todos'[i].Title =
                  IF call'.title # "" THEN call'.title ELSE todos[i].Title
            /\ todos'[i].ID = todos[i].ID
            /\ todos'[i].CreatedAt = todos[i].CreatedAt
            /\ \A j \in 1..Len(todos) : j # i => todos'[j] = todos[j]
            /\ idCounter' = idCounter]_vars

\* An Update with an empty title has just marked the second of two todos
\* completed; it keeps the title it was created with.
UpdateEmptyTitleReached ==
    /\ call = Call("update", 2, "", TRUE)
    /\ out = "To-Do updated successfully."
    /\ Len(todos) = 2
    /\ todos[2] = Todo(2, InvalidTitle, TRUE, Now(1))
    /\ ~todos[1].Completed


\* SaveToFile has just succeeded.
SaveSucceeded == call.op = "save" /\ out = "To-Do list saved to file."

\* C11: a successful save followed by a load of the file into a fresh store
\* yields the saved task sequence: the same ids, titles and completion flags
\* in the same order, and timestamps that are the same instant.
RoundTripSameSequence ==
    SaveSucceeded =>
        /\ Len(LoadedFrom(file)) = Len(todos)
        /\ \A i \in 1..Len(todos) :
              LET l == LoadedFrom(file)[i] IN
                /\ l.ID = todos[i].ID
                /\ l.Title = todos[i].Title
                /\ l.Completed = todos[i].Completed
                /\ l.CreatedAt.wall = todos[i].CreatedAt.wall


\* main is inside the critical section of the store method it called.
MainInCS ==
    pcMain \in {"load", "create", "list", "update", "delete"} /\ mu = "main"

\* AutoSave is inside a critical section: its read of t.changed, or SaveToFile.
AutoInCS == pcAuto \in {"tickIn", "saveIn"}

\* C12: at most one store operation is inside its critical section at any
\* time: AutoSave is in one only while it holds the lock, main only while it
\* holds the lock, and the lock has one holder.
MutualExclusion ==
    /\ ~(MainInCS /\ AutoInCS)
    /\ AutoInCS <=> mu = "auto"
    /\ mu = "main" => MainInCS

\* main has called UpdateTodo and waits for the lock while AutoSave is inside
\* SaveToFile.
MainWaitsForSaveReached ==
    /\ pcMain = "update" /\ ~MainInCS
    /\ pcAuto = "saveIn" /\ mu = "auto"


\* C13: the id counter never decreases: it is the number of Create calls made
\* so far, so only a Create changes it, by +1, and Update, Delete, Save and
\* Load leave it as it is.
CounterCountsCreates ==
    idCounter = Len(assigned)

\* A Delete has just removed a todo after two Creates; the counter is still 2.
DeleteKeepsCounterReached ==
    /\ call.op = "delete" /\ out = "To-Do deleted successfully."
    /\ Len(assigned) = 2
    /\ idCounter = 2
    /\ Len(todos) <= 1


\* C14: a Delete whose id is in the store removes exactly one todo, the
\* first with that id; the todos before it stay in place and the ones after
\* it move up by one, unchanged and in the same order.
DeleteRemovesFirstMatch ==
    [][(call'.op = "delete" /\ FindFirst(todos, call'.id) # 0) =>
          LET i == FindFirst(todos, call'.id) IN
            /\ Len(todos') = Len(todos) - 1
            /\ \A j \in 1..(i - 1) : todos'[j] = todos[j]
            /\ \A j \in i..(Len(todos) - 1) : todos'[j] = todos[j + 1]]_vars

\* Delete(1) has just removed the loaded todo with id 1, the first of two
\* with that id; the one created in this run and the todo after it remain.
DeleteFirstOfTwoReached ==
    /\ call = Call("delete", 1, "", FALSE)
    /\ out = "To-Do deleted successfully."
    /\ Len(todos) = 2
    /\ todos[1].ID = 1 /\ todos[1].CreatedAt.mono
    /\ todos[2].ID = 2


\* main has called a store method and waits at its t.mu.Lock().
MainWaitsForLock ==
    pcMain \in {"load", "create", "list", "update", "delete"} /\ mu # "main"

\* AutoSave waits at a t.mu.Lock().
AutoWaitsForLock == pcAuto \in {"tickLock", "saveLock"}

\* C15: no deadlock on the store lock: a thread that requests the lock
\* eventually obtains it.
LockRequestsGranted ==
    /\ MainWaitsForLock ~> MainInCS
    /\ AutoWaitsForLock ~> AutoInCS

\* AutoSave has released the lock after reading the flag and now requests it
\* again for SaveToFile, while main holds it inside DeleteTodo.
SaveWaitsForMainReached ==
    /\ pcAuto = "saveLock"
    /\ pcMain = "delete" /\ mu = "main"


\* C16: once the user has chosen exit, the process terminates: the send on
\* done is received, AutoSave stops and signals completion once (the
\* WaitGroup counter goes from 1 to 0 and never below), and wg.Wait returns.
ExitTerminates ==
    /\ (pcMain = "send") ~> (pcMain = "terminated")
    /\ [](wg \in {0, 1})

\* The user has chosen exit while AutoSave is inside SaveToFile: the send
\* has to wait for the save to return.
ExitDuringSaveReached ==
    /\ pcMain = "send"
    /\ pcAuto = "saveIn" /\ mu = "auto"


\* AutoSave has received main's send on done.
SignalReceived == pcMain \in {"close", "wait", "terminated"}

\* C17: after AutoSave has received the shutdown signal it handles no tick
\* and starts no save: it is Stopping or Stopped and stays so, Stopped is
\* terminal, the file is not written any more; Stopping is entered from the
\* select and Stopped from Stopping.
NoTickAfterSignal ==
    [][/\ SignalReceived =>
             /\ pcAuto \in {"stopping", "stopped"}
             /\ pcAuto' \in {"stopping", "stopped"}
             /\ pcAuto = "stopped" => pcAuto' = "stopped"
             /\ file' = file
       /\ (pcAuto' = "stopping" /\ pcAuto # "stopping") => pcAuto = "select"
       /\ (pcAuto' = "stopped" /\ pcAuto # "stopped") => pcAuto = "stopping"]_vars

\* AutoSave has stopped with a change pending that it did not save.
StoppedWithChangesReached ==
    /\ pcAuto = "stopped"
    /\ pcMain = "wait"
    /\ changed /\ Len(todos) > 0


\* The user has chosen exit.
ShutdownRequested == pcMain \in {"send", "close", "wait", "terminated"}

\* From some point on no SaveToFile call returns an error.
SavesStopFailing == <>[][~SaveFails]_vars

\* C18: a failed save leaves AutoSave running, with the dirty flag still set:
\* it prints the error and is back in its select; a tick that reads the flag
\* as set calls SaveToFile; and, when saves stop failing, a pending change
\* gets saved unless shutdown is requested first.
FailedSaveIsRetried ==
    /\ [](SaveFailed => (pcAuto = "saveErr" /\ changed /\ wg = 1))
    /\ [][(pcAuto = "saveErr" /\ pcAuto' # "saveErr")
              => (pcAuto' = "select" /\ wg' = wg /\ changed')]_vars
    /\ [][(pcAuto = "tickIn" /\ changed /\ pcAuto' # "tickIn")
              => pcAuto' = "saveLock"]_vars
    /\ SavesStopFailing => (changed ~> (~changed \/ ShutdownRequested))

\* A write of the file has failed after an earlier save or load succeeded,
\* and AutoSave is inside SaveToFile again with the change still pending.
RetryAfterFailureReached ==
    /\ file = Corrupt /\ synced
    /\ changed
    /\ pcAuto = "saveIn"


\* C19: the step in which LoadFromFile succeeds sets todos to what the file
\* holds, whatever todos held, and leaves idCounter and the dirty flag as they
\* were.
LoadKeepsCounter ==
    [][(call'.op = "load" /\ out' = "To-Do list loaded from file.")
         => /\ todos' = LoadedFrom(file)
            /\ idCounter' = idCounter
            /\ changed' = changed
            /\ file' = file]_vars

\* After a successful load and no delete, CreateTodo has just appended a todo
\* whose ID is the ID of the loaded todo before it.
CreateCollidesWithLoadedReached ==
    /\ call.op = "create"
    /\ deleted = {}
    /\ Len(todos) = 2
    /\ ~todos[1].CreatedAt.mono /\ todos[2].CreatedAt.mono
    /\ todos[2].ID = todos[1].ID

\* C20: an UpdateTodo or DeleteTodo whose ID is on no todo prints "To-Do not
\* found.", returns to the menu and leaves todos, idCounter and t.changed as
\* they were; and a tick that reads t.changed as false does not go on to
\* SaveToFile.
NotFoundChangesNothing ==
    [][/\ (call'.op \in {"update", "delete"} /\ FindFirst(todos, call'.id) = 0)
          => /\ out' = "To-Do not found."
             /\ UNCHANGED <<todos, idCounter, changed, file>>
             /\ pcMain' = "menu"
       /\ (call'.op \in {"update", "delete"} /\ out' = "To-Do not found.")
          => FindFirst(todos, call'.id) = 0
       /\ (pcAuto = "tickIn" /\ ~changed) => pcAuto' \notin {"saveLock", "saveIn"}
      ]_vars

\* DeleteTodo has just reported not found on a list that holds a todo and has
\* nothing unsaved, while AutoSave waits for the lock to read t.changed.
DeleteNotFoundCleanReached ==
    /\ call.op = "delete" /\ out = "To-Do not found."
    /\ Len(todos) > 0
    /\ ~changed
    /\ pcAuto = "tickLock"

====
